---- MODULE Spec2Model ----
(***************************************************************************)
(* A model of magicrest.ReadPaginated and magicrest.PaginateGeneric        *)
(* (src/mgicrest/radhelper.go).                                            *)
(*                                                                         *)
(* Strings are sequences of one-character strings, so that the parsing the *)
(* code does (HasPrefix, Split, TrimSpace, Atoi, uuid.Parse) is computed   *)
(* and not assumed.  Go's int and int64 are 64 bits wide; values of that   *)
(* size do not fit a TLC integer, so an integer is a sign and a magnitude  *)
(* in base 256 and the machine operations wrap at IntBits bits.            *)
(*                                                                         *)
(* The gorm engine is outside the repository: the model keeps the clauses  *)
(* the code asks for (Where, Preload, Select, Group, Order, Limit, Offset) *)
(* and the requests it has the engine execute, and lets Count and Find     *)
(* answer anything.  Every key of a query carries at least one value, as   *)
(* in the url.Values that url.ParseQuery and the README's examples build.  *)
(***************************************************************************)
EXTENDS Integers, Sequences, FiniteSets, TLC

(***************************************************************************)
(* Arbitrary-precision integers.                                           *)
(***************************************************************************)
IntBits == 64

Base == 2 ^ 8

RECURSIVE MagOf(_)
MagOf(n) == IF n = 0 THEN <<>> ELSE <<n % Base>> \o MagOf(n \div Base)

RECURSIVE Norm(_)
Norm(m) ==
  IF m = <<>> THEN <<>>
  ELSE IF m[Len(m)] = 0 THEN Norm(SubSeq(m, 1, Len(m) - 1)) ELSE m

Limb(m, i) == IF i <= Len(m) THEN m[i] ELSE 0

RECURSIVE MagCmpFrom(_, _, _)
MagCmpFrom(a, b, i) ==
  IF i = 0 THEN 0
  ELSE IF a[i] < b[i] THEN -1
  ELSE IF a[i] > b[i] THEN 1
  ELSE MagCmpFrom(a, b, i - 1)

\* a and b normalised: -1, 0 or 1 as a < b, a = b, a > b
MagCmp(a, b) ==
  IF Len(a) < Len(b) THEN -1
  ELSE IF Len(a) > Len(b) THEN 1
  ELSE MagCmpFrom(a, b, Len(a))

RECURSIVE MagAddFrom(_, _, _, _)
MagAddFrom(a, b, i, carry) ==
  IF i > Len(a) /\ i > Len(b)
  THEN (IF carry = 0 THEN <<>> ELSE <<carry>>)
  ELSE LET s == Limb(a, i) + Limb(b, i) + carry
       IN  <<s % Base>> \o MagAddFrom(a, b, i + 1, s \div Base)

MagAdd(a, b) == MagAddFrom(a, b, 1, 0)

RECURSIVE MagSubFrom(_, _, _, _)
MagSubFrom(a, b, i, borrow) ==
  IF i > Len(a) THEN <<>>
  ELSE LET d == a[i] - Limb(b, i) - borrow
       IN  IF d < 0
           THEN <<d + Base>> \o MagSubFrom(a, b, i + 1, 1)
           ELSE <<d>> \o MagSubFrom(a, b, i + 1, 0)

\* a >= b
MagSub(a, b) == Norm(MagSubFrom(a, b, 1, 0))

RECURSIVE MagMulSmallFrom(_, _, _, _)
MagMulSmallFrom(a, k, i, carry) ==
  IF i > Len(a) THEN MagOf(carry)
  ELSE LET p == a[i] * k + carry
       IN  <<p % Base>> \o MagMulSmallFrom(a, k, i + 1, p \div Base)

\* k a natural below Base * Base
MagMulSmall(a, k) == Norm(MagMulSmallFrom(a, k, 1, 0))

RECURSIVE MagMulFrom(_, _, _)
MagMulFrom(a, b, i) ==
  IF i > Len(b) THEN <<>>
  ELSE MagAdd(MagMulSmall(a, b[i]),
              LET rest == MagMulFrom(a, b, i + 1)
              IN  IF rest = <<>> THEN <<>> ELSE <<0>> \o rest)

MagMul(a, b) == Norm(MagMulFrom(a, b, 1))

\* the largest d in 0 .. Base-1 with d * b <= r, found bit by bit
RECURSIVE QuoDigit(_, _, _, _)
QuoDigit(r, b, d, bit) ==
  IF bit = 0 THEN d
  ELSE IF MagCmp(MagMulSmall(b, d + bit), r) <= 0
       THEN QuoDigit(r, b, d + bit, bit \div 2)
       ELSE QuoDigit(r, b, d, bit \div 2)

\* long division of a by b > 0, limb i downwards: <<quotient, remainder>>
RECURSIVE MagDivFrom(_, _, _, _)
MagDivFrom(a, b, i, r) ==
  IF i = 0 THEN <<<<>>, r>>
  ELSE LET r1 == Norm(<<a[i]>> \o r)
           d  == QuoDigit(r1, b, 0, Base \div 2)
           r2 == MagSub(r1, MagMulSmall(b, d))
           lo == MagDivFrom(a, b, i - 1, r2)
       IN  <<lo[1] \o <<d>>, lo[2]>>

MagQuo(a, b) == Norm(MagDivFrom(a, b, Len(a), <<>>)[1])

\* an integer: its sign and its magnitude; zero is not negative
MkInt(neg, mag) == [neg |-> neg /\ mag # <<>>, mag |-> mag]

IntOf(n) == IF n < 0 THEN MkInt(TRUE, MagOf(-n)) ELSE MkInt(FALSE, MagOf(n))

INeg(x) == MkInt(~x.neg, x.mag)

IAdd(x, y) ==
  IF x.neg = y.neg THEN MkInt(x.neg, MagAdd(x.mag, y.mag))
  ELSE IF MagCmp(x.mag, y.mag) >= 0 THEN MkInt(x.neg, MagSub(x.mag, y.mag))
  ELSE MkInt(y.neg, MagSub(y.mag, x.mag))

ISub(x, y) == IAdd(x, INeg(y))

IMul(x, y) == MkInt(x.neg # y.neg, MagMul(x.mag, y.mag))

\* Go's integer division truncates toward zero
IQuo(x, y) == MkInt(x.neg # y.neg, MagQuo(x.mag, y.mag))

ILt(x, y) ==
  IF x.neg # y.neg THEN x.neg
  ELSE IF x.neg THEN MagCmp(x.mag, y.mag) > 0
  ELSE MagCmp(x.mag, y.mag) < 0

ILe(x, y) == ~ILt(y, x)

RECURSIVE MagPow2(_)
MagPow2(k) ==
  IF k = 0 THEN <<1>>
  ELSE IF k >= 8 THEN <<0>> \o MagPow2(k - 8)
  ELSE MagMulSmall(MagPow2(k - 1), 2)

MaxInt == MkInt(FALSE, MagSub(MagPow2(IntBits - 1), <<1>>))
MinInt == MkInt(TRUE, MagPow2(IntBits - 1))

InRange(x) == ILe(MinInt, x) /\ ILe(x, MaxInt)

\* the two's complement value of x in IntBits bits
Wrap(x) ==
  LET low  == Norm(SubSeq(x.mag, 1,
                   IF Len(x.mag) < IntBits \div 8 THEN Len(x.mag) ELSE IntBits \div 8))
      m    == IF x.neg /\ low # <<>> THEN MagSub(MagPow2(IntBits), low) ELSE low
  IN  IF MagCmp(m, MagPow2(IntBits - 1)) >= 0
      THEN MkInt(TRUE, MagSub(MagPow2(IntBits), m))
      ELSE MkInt(FALSE, m)

\* the machine operations of Go's int / int64
WAdd(x, y) == Wrap(IAdd(x, y))
WSub(x, y) == Wrap(ISub(x, y))
WMul(x, y) == Wrap(IMul(x, y))

(***************************************************************************)
(* Strings: sequences of one-character strings.                            *)
(***************************************************************************)
HasPrefix(s, p) == Len(s) >= Len(p) /\ SubSeq(s, 1, Len(p)) = p

HasSuffix(s, p) == Len(s) >= Len(p) /\ SubSeq(s, Len(s) - Len(p) + 1, Len(s)) = p

Contains(s, c) == \E i \in 1..Len(s) : s[i] = c

\* strings.Split(s, c) for a one-character separator c
RECURSIVE SplitFrom(_, _, _, _)
SplitFrom(s, c, i, cur) ==
  IF i > Len(s) THEN <<cur>>
  ELSE IF s[i] = c THEN <<cur>> \o SplitFrom(s, c, i + 1, <<>>)
  ELSE SplitFrom(s, c, i + 1, Append(cur, s[i]))

Split(s, c) == SplitFrom(s, c, 1, <<>>)

Space == {" ", "\t", "\n", "\r"}

RECURSIVE TrimLeft(_)
TrimLeft(s) ==
  IF s # <<>> /\ s[1] \in Space THEN TrimLeft(Tail(s)) ELSE s

RECURSIVE TrimRight(_)
TrimRight(s) ==
  IF s # <<>> /\ s[Len(s)] \in Space THEN TrimRight(SubSeq(s, 1, Len(s) - 1)) ELSE s

TrimSpace(s) == TrimRight(TrimLeft(s))

RECURSIVE Join(_, _)
Join(parts, sep) ==
  IF parts = <<>> THEN <<>>
  ELSE IF Len(parts) = 1 THEN parts[1]
  ELSE parts[1] \o sep \o Join(Tail(parts), sep)

\* the non-empty elements of seq, in order
RECURSIVE SelectNonEmpty(_)
SelectNonEmpty(seq) ==
  IF seq = <<>> THEN <<>>
  ELSE IF seq[1] # <<>> THEN <<seq[1]>> \o SelectNonEmpty(Tail(seq))
  ELSE SelectNonEmpty(Tail(seq))

MapTrim(parts) == [i \in 1..Len(parts) |-> TrimSpace(parts[i])]

DigitChars == <<"0", "1", "2", "3", "4", "5", "6", "7", "8", "9">>

IsDigit(c) == \E i \in 1..10 : DigitChars[i] = c

DigitOf(c) == (CHOOSE i \in 1..10 : DigitChars[i] = c) - 1

HexChars == {"0", "1", "2", "3", "4", "5", "6", "7", "8", "9",
             "a", "b", "c", "d", "e", "f", "A", "B", "C", "D", "E", "F"}

\* the value of a string of at most four decimal digits
RECURSIVE SmallValue(_)
SmallValue(s) ==
  IF s = <<>> THEN 0
  ELSE 10 * SmallValue(SubSeq(s, 1, Len(s) - 1)) + DigitOf(s[Len(s)])

\* the value of a string of decimal digits, four digits at a time
RECURSIVE DigitsValue(_)
DigitsValue(s) ==
  IF Len(s) <= 4 THEN IntOf(SmallValue(s))
  ELSE LET front == DigitsValue(SubSeq(s, 1, Len(s) - 4))
           last  == SmallValue(SubSeq(s, Len(s) - 3, Len(s)))
       IN  IAdd(MkInt(FALSE, MagMulSmall(front.mag, 10000)), IntOf(last))

\* strconv.Atoi: an optional sign, then one or more decimal digits, and the value
\* must fit an int; otherwise an error
Atoi(s) ==
  LET signed == s # <<>> /\ s[1] \in {"+", "-"}
      body   == IF signed THEN Tail(s) ELSE s
      syntax == body # <<>> /\ \A i \in 1..Len(body) : IsDigit(body[i])
      mag    == DigitsValue(body)
      val    == IF signed /\ s[1] = "-" THEN INeg(mag) ELSE mag
  IN  IF syntax /\ InRange(val)
      THEN [ok |-> TRUE, val |-> val]
      ELSE [ok |-> FALSE, val |-> IntOf(0)]

\* decimal text of a natural number (strconv.Itoa), used to write inputs
RECURSIVE Itoa(_)
Itoa(n) ==
  IF n < 10 THEN <<DigitChars[n + 1]>>
  ELSE Itoa(n \div 10) \o <<DigitChars[(n % 10) + 1]>>

LowerAscii(c) ==
  CASE c = "U" -> "u" [] c = "R" -> "r" [] c = "N" -> "n" [] c = "I" -> "i"
    [] c = "D" -> "d" [] OTHER -> c

UrnPrefix == <<"u", "r", "n", ":", "u", "u", "i", "d", ":">>

\* the hyphenated form xxxxxxxx-xxxx-xxxx-xxxx-xxxxxxxxxxxx
UuidHyphenated(s) ==
  /\ Len(s) = 36
  /\ \A i \in 1..36 :
       IF i \in {9, 14, 19, 24} THEN s[i] = "-" ELSE s[i] \in HexChars

\* uuid.Parse(s) succeeds: the four forms github.com/google/uuid accepts
UuidParseOk(s) ==
  CASE Len(s) = 36 -> UuidHyphenated(s)
    [] Len(s) = 45 ->
         /\ [i \in 1..9 |-> LowerAscii(s[i])] = UrnPrefix
         /\ UuidHyphenated(SubSeq(s, 10, 45))
    [] Len(s) = 38 ->
         /\ s[1] = "{" /\ s[38] = "}"
         /\ UuidHyphenated(SubSeq(s, 2, 37))
    [] Len(s) = 32 -> \A i \in 1..32 : s[i] \in HexChars
    [] OTHER -> FALSE

(***************************************************************************)
(* The strings the code names.                                             *)
(***************************************************************************)
KeyPage == <<"p", "a", "g", "e">>
KeyPageSize == <<"p", "a", "g", "e", "S", "i", "z", "e">>
KeySearch == <<"s", "e", "a", "r", "c", "h">>
KeyOrder == <<"o", "r", "d", "e", "r">>
KeyPreload == <<"p", "r", "e", "l", "o", "a", "d">>
KeyGroupBy == <<"g", "r", "o", "u", "p", "b", "y">>
FilterPrefix == <<"f", "i", "l", "t", "e", "r", "[">>
FilterSuffix == <<"]">>
GroupSelectTail == <<",", " ", "M", "A", "X", "(", "c", "r", "e", "a", "t", "e", "d", "_", "a", "t", ")", " ", "a", "s", " ", "c", "r", "e", "a", "t", "e", "d", "_", "a", "t">>
GroupOrder == <<"M", "A", "X", "(", "c", "r", "e", "a", "t", "e", "d", "_", "a", "t", ")", " ", "d", "e", "s", "c">>
FallbackOrder == <<"c", "r", "e", "a", "t", "e", "d", "_", "a", "t", " ", "d", "e", "s", "c">>
FieldId == <<"i", "d">>
FieldStatus == <<"s", "t", "a", "t", "u", "s">>
FieldJumlah == <<"j", "u", "m", "l", "a", "h">>
FieldGudangId == <<"g", "u", "d", "a", "n", "g", "_", "i", "d">>

\* the built-in field types of ReadPaginated
DefaultAllowed ==
  [f \in {FieldId, FieldStatus, FieldJumlah, FieldGudangId} |->
     CASE f = FieldId -> "uuid"
       [] f = FieldStatus -> "string"
       [] f = FieldJumlah -> "int"
       [] f = FieldGudangId -> "uuid"]

\* the merge of the built-in types into the map the options carry: an entry
\* of the map wins, a missing one is written into the map
MergeDefaults(m) ==
  [k \in DOMAIN m \cup DOMAIN DefaultAllowed |->
     IF k \in DOMAIN m THEN m[k] ELSE DefaultAllowed[k]]

\* a Go map read: the zero value "" for a missing key
FieldType(types, field) == IF field \in DOMAIN types THEN types[field] ELSE ""

\* url.Values.Get: the first value of the key, "" when there is none
Get(q, key) ==
  IF key \in DOMAIN q /\ q[key] # <<>> THEN q[key][1] ELSE <<>>

(***************************************************************************)
(* The request built on the *gorm.DB handle: the clauses added so far.     *)
(***************************************************************************)
Unset == [set |-> FALSE, val |-> IntOf(0)]

SetTo(v) == [set |-> TRUE, val |-> v]

EmptyDB ==
  [where |-> <<>>, preload |-> <<>>, selects |-> <<>>, group |-> <<>>,
   order |-> <<>>, limit |-> Unset, offset |-> Unset]

IntVal(i) == [t |-> "int", i |-> i, s |-> <<>>]

StrVal(s) == [t |-> "string", i |-> IntOf(0), s |-> s]

Where(db, col, op, args) ==
  [db EXCEPT !.where = Append(@, [col |-> col, op |-> op, args |-> args])]

Preload(db, f) == [db EXCEPT !.preload = Append(@, f)]

Select(db, expr) == [db EXCEPT !.selects = <<expr>>]

Group(db, expr) == [db EXCEPT !.group = Append(@, expr)]

Order(db, expr) == [db EXCEPT !.order = Append(@, expr)]

Limit(db, n) == [db EXCEPT !.limit = SetTo(n)]

Offset(db, n) == [db EXCEPT !.offset = SetTo(n)]

\* db.Session(&gorm.Session{}): a copy of the request as it stands
Session(db) == db

(***************************************************************************)
(* The filter loop body, for one key of the query.                         *)
(***************************************************************************)
\* the parts that parse as int, in order, as values
RECURSIVE IntParts(_)
IntParts(parts) ==
  IF parts = <<>> THEN <<>>
  ELSE IF Atoi(parts[1]).ok
       THEN <<IntVal(Atoi(parts[1]).val)>> \o IntParts(Tail(parts))
       ELSE IntParts(Tail(parts))

\* the parts that parse as uuid, in order, as the strings they are
RECURSIVE UuidParts(_)
UuidParts(parts) ==
  IF parts = <<>> THEN <<>>
  ELSE IF UuidParseOk(parts[1])
       THEN <<StrVal(parts[1])>> \o UuidParts(Tail(parts))
       ELSE UuidParts(Tail(parts))

StrParts(parts) == [i \in 1..Len(parts) |-> StrVal(parts[i])]

IsFilterKey(key) == HasPrefix(key, FilterPrefix) /\ HasSuffix(key, FilterSuffix)

FieldOf(key) == SubSeq(key, 8, Len(key) - 1)

\* FilterMulti with the flag raised only when no part of the list is valid
FilterMultiLenient(st, field, fieldType, value) ==
  LET parts == MapTrim(Split(value, ","))
  IN  CASE fieldType = "int" ->
             LET ints == IntParts(parts)
             IN  [db |-> IF Len(ints) > 0 THEN Where(st.db, field, "IN", ints) ELSE st.db,
                  invalid |-> st.invalid \/ Len(ints) = 0]
        [] fieldType = "uuid" ->
             LET uuids == UuidParts(parts)
             IN  [db |-> IF Len(uuids) > 0 THEN Where(st.db, field, "IN", uuids) ELSE st.db,
                  invalid |-> st.invalid \/ Len(uuids) = 0]
        [] OTHER ->
             [db |-> Where(st.db, field, "IN", StrParts(parts)), invalid |-> st.invalid]

\* a comma-separated value of a key
FilterMulti(st, field, fieldType, value) ==
  LET parts == MapTrim(Split(value, ","))
  IN  CASE fieldType = "int" ->
             LET ints == IntParts(parts)
             IN  [db |-> IF Len(ints) > 0 THEN Where(st.db, field, "IN", ints) ELSE st.db,
                  invalid |-> st.invalid \/ \E i \in 1..Len(parts) : ~Atoi(parts[i]).ok]
        [] fieldType = "uuid" ->
             LET uuids == UuidParts(parts)
             IN  [db |-> IF Len(uuids) > 0 THEN Where(st.db, field, "IN", uuids) ELSE st.db,
                  invalid |-> st.invalid \/ \E i \in 1..Len(parts) : ~UuidParseOk(parts[i])]
        [] OTHER ->
             [db |-> Where(st.db, field, "IN", StrParts(parts)), invalid |-> st.invalid]

\* FilterSingle with the flag assigned, not raised: a valid value clears it
FilterSingleReset(st, field, fieldType, value) ==
  CASE fieldType = "int" ->
         IF Atoi(value).ok
         THEN [db |-> Where(st.db, field, "=", <<IntVal(Atoi(value).val)>>),
               invalid |-> FALSE]
         ELSE [db |-> st.db, invalid |-> TRUE]
    [] fieldType = "uuid" ->
         IF UuidParseOk(value)
         THEN [db |-> Where(st.db, field, "=", <<StrVal(value)>>), invalid |-> FALSE]
         ELSE [db |-> st.db, invalid |-> TRUE]
    [] OTHER ->
         [db |-> Where(st.db, field, "=", <<StrVal(value)>>), invalid |-> FALSE]

\* a single value of a key
FilterSingle(st, field, fieldType, value) ==
  CASE fieldType = "int" ->
         IF Atoi(value).ok
         THEN [db |-> Where(st.db, field, "=", <<IntVal(Atoi(value).val)>>),
               invalid |-> st.invalid]
         ELSE [db |-> st.db, invalid |-> TRUE]
    [] fieldType = "uuid" ->
         IF UuidParseOk(value)
         THEN [db |-> Where(st.db, field, "=", <<StrVal(value)>>), invalid |-> st.invalid]
         ELSE [db |-> st.db, invalid |-> TRUE]
    [] OTHER ->
         [db |-> Where(st.db, field, "=", <<StrVal(value)>>), invalid |-> st.invalid]

\* FilterKey reading the last value of the key instead of the first
FilterKeyLastValue(st, key, vals, types) ==
  IF ~IsFilterKey(key) THEN st
  ELSE IF FieldOf(key) = <<>> THEN st
  ELSE LET field     == FieldOf(key)
           value     == vals[Len(vals)]
           fieldType == FieldType(types, field)
       IN  IF Contains(value, ",")
           THEN FilterMulti(st, field, fieldType, value)
           ELSE FilterSingle(st, field, fieldType, value)

\* one iteration of `for key, vals := range query`: st is [db, invalid]
FilterKey(st, key, vals, types) ==
  IF ~IsFilterKey(key) THEN st
  ELSE IF FieldOf(key) = <<>> THEN st
  ELSE LET field     == FieldOf(key)
           value     == vals[1]
           fieldType == FieldType(types, field)
       IN  IF Contains(value, ",")
           THEN FilterMulti(st, field, fieldType, value)
           ELSE FilterSingle(st, field, fieldType, value)

(***************************************************************************)
(* Page window, preload, search, group and order.                          *)
(***************************************************************************)
Positive(x) == ILt(IntOf(0), x)

\* the page or pageSize in force: the parameter when it parses as an int > 0,
\* else the option when > 0, else the fallback
Resolve(raw, option, fallback) ==
  LET base == IF Positive(option) THEN option ELSE fallback
  IN  IF raw # <<>> /\ Atoi(raw).ok /\ Positive(Atoi(raw).val)
      THEN Atoi(raw).val
      ELSE base

RECURSIVE PreloadAll(_, _)
PreloadAll(db, names) ==
  IF names = <<>> THEN db
  ELSE PreloadAll(Preload(db, names[1]), Tail(names))

\* ApplyPreload adding the configured relations to those of the parameter
ApplyPreloadMerge(db, q, o) ==
  PreloadAll(PreloadAll(db, SelectNonEmpty(MapTrim(Split(Get(q, KeyPreload), ",")))),
             o.PreloadFields)

ApplyPreload(db, q, o) ==
  IF Get(q, KeyPreload) # <<>>
  THEN PreloadAll(db, SelectNonEmpty(MapTrim(Split(Get(q, KeyPreload), ","))))
  ELSE PreloadAll(db, o.PreloadFields)

Pattern(search) == <<StrVal(<<"%">> \o search \o <<"%">>)>>

ApplySearch(db, q, o) ==
  LET search == Get(q, KeySearch)
  IN  IF o.SearchField # <<>> /\ search # <<>>
      THEN IF Contains(o.SearchField, ".")
           THEN LET parts == Split(o.SearchField, ".")
                IN  IF Len(parts) = 2
                    THEN Where(db, parts[1] \o <<".">> \o parts[2], "ILIKE", Pattern(search))
                    ELSE Where(db, o.SearchField, "ILIKE", Pattern(search))
           ELSE Where(db, o.SearchField, "ILIKE", Pattern(search))
      ELSE db

ApplyGroupBy(db, q, o) ==
  IF o.AllowGroupBy /\ Get(q, KeyGroupBy) # <<>>
  THEN LET groupExpr == Join(MapTrim(Split(Get(q, KeyGroupBy), ",")), <<",", " ">>)
       IN  Order(Group(Select(db, groupExpr \o GroupSelectTail), groupExpr), GroupOrder)
  ELSE db

ApplyOrderBy(db, q, o) ==
  LET orderBy == IF Get(q, KeyOrder) # <<>> THEN Get(q, KeyOrder) ELSE o.OrderBy
  IN  IF orderBy # <<>> THEN Order(db, orderBy) ELSE Order(db, FallbackOrder)

Compose(db, q, o) ==
  ApplyOrderBy(ApplyGroupBy(ApplySearch(ApplyPreload(db, q, o), q, o), q, o), q, o)

(***************************************************************************)
(* PaginateGeneric's arithmetic, on Go's int and int64.                    *)
(***************************************************************************)
PageOffset(page, pageSize) == WMul(WSub(page, IntOf(1)), pageSize)

TotalPages(total, pageSize) ==
  Wrap(IQuo(WSub(WAdd(total, pageSize), IntOf(1)), pageSize))

Pagination(total, page, pageSize) ==
  LET totalPages == TotalPages(total, pageSize)
  IN  [page      |-> page,
       pageSize  |-> pageSize,
       pageCount |-> totalPages,
       total     |-> total,
       hasNext   |-> ILt(page, totalPages),
       hasPrev   |-> ILt(IntOf(1), page) /\ Positive(totalPages)]

\* CountRequest on a new session that drops the clauses (Session{NewDB: true})
CountRequestNewDB(db) == EmptyDB

\* what PaginateGeneric hands the engine: the count runs on a copy of the
\* request, the find on the request with limit and offset
CountRequest(db) == Session(db)

FindRequest(db, page, pageSize) ==
  Offset(Limit(db, pageSize), PageOffset(page, pageSize))

(***************************************************************************)
(* What ReadPaginated returns.  A Go map is the set of its entries.        *)
(***************************************************************************)
NoResult ==
  [Data |-> <<>>, DataNil |-> TRUE, Meta |-> {}, MetaNil |-> TRUE, err |-> "pending"]

\* Result[T]{Data: []T{}, Meta: map[string]interface{}{}}, ErrInvalidFilter
InvalidResult ==
  [Data |-> <<>>, DataNil |-> FALSE, Meta |-> {}, MetaNil |-> FALSE,
   err |-> "ErrInvalidFilter"]

\* Result[T]{}, err
ErrorResult(err) ==
  [Data |-> <<>>, DataNil |-> TRUE, Meta |-> {}, MetaNil |-> TRUE, err |-> err]

OkResult(data, pagination) ==
  [Data |-> data, DataNil |-> FALSE,
   Meta |-> {[key |-> "pagination", value |-> pagination]}, MetaNil |-> FALSE,
   err |-> "nil"]

MetaKeys(r) == {e.key : e \in r.Meta}

\* where ReadPaginated goes after the filter loop
AfterFilters(invalid) == IF invalid THEN "done" ELSE "compose"

\* AfterCount going on to the fetch whatever the count returned
AfterCountIgnored(err) == "fetch"

\* where PaginateGeneric goes after the count
AfterCount(err) == IF err # "nil" THEN "done" ELSE "fetch"

(***************************************************************************)
(* Bounds and inputs.                                                      *)
(***************************************************************************)
MaxFilterKeys == 2
MaxPage == 3
MaxPageSize == 2
MaxTotal == 1
MaxRows == 1

Rep(c, n) == [i \in 1..n |-> c]

Uuid1 ==
  Rep("a", 8) \o <<"-">> \o Rep("1", 4) \o <<"-">> \o Rep("4", 4) \o <<"-">>
    \o Rep("B", 4) \o <<"-">> \o Rep("0", 12)

Uuid2 == Rep("f", 32)

FieldName == <<"n", "a", "m", "e">>

FilterOf(field) == FilterPrefix \o field \o FilterSuffix

\* a filter key that lacks its closing bracket
KeyOpen == FilterPrefix \o FieldId

\* the values a key of the query may carry: each a non-empty list of strings
FilterEntries ==
  {<<FilterOf(FieldJumlah), <<<<"5">>>>>>,
   <<FilterOf(FieldJumlah), <<<<"+", "0", "7">>>>>>,
   <<FilterOf(FieldJumlah), <<<<"a", "b", "c">>>>>>,
   <<FilterOf(FieldJumlah), <<<<"1", ",", "2">>>>>>,
   <<FilterOf(FieldJumlah), <<<<"1", ",", " ", "x">>>>>>,
   <<FilterOf(FieldJumlah), <<<<"5">>, <<"a", "b", "c">>>>>>,
   <<FilterOf(FieldId), <<Uuid1>>>>,
   <<FilterOf(FieldId), <<<<"b", "a", "d">>>>>>,
   <<FilterOf(FieldId), <<Uuid1 \o <<",", " ">> \o Uuid2>>>>,
   <<FilterOf(FieldId), <<Uuid1 \o <<",">> \o <<"b", "a", "d">>>>>>,
   <<FilterOf(FieldStatus), <<<<"a", "c", "t", "i", "v", "e">>>>>>,
   <<FilterOf(FieldStatus), <<<<"a", ",", " ", "b">>>>>>,
   <<FilterOf(FieldName), <<<<"x">>>>>>,
   <<FilterOf(FieldName), <<<<"7", ",", "8">>>>>>,
   <<FilterOf(<<>>), <<<<"x">>>>>>,
   <<KeyOpen, <<<<"b", "a", "d">>>>>>}

PageEntries ==
  {<<KeyPage, <<raw>>>> :
     raw \in {<<"0">>, <<"-", "2">>, <<"a", "b", "c">>, <<"5">>} \cup {Itoa(n) : n \in 1..MaxPage}}

PageSizeEntries ==
  {<<KeyPageSize, <<raw>>>> :
     raw \in {<<"0">>, <<"x">>, <<"1", "0">>, <<"4", "6", "1", "1", "6", "8", "6", "0", "1", "8", "4", "2", "7", "3", "8", "7", "9", "0", "4">>, <<"9", "2", "2", "3", "3", "7", "2", "0", "3", "6", "8", "5", "4", "7", "7", "5", "8", "0", "7">>,
              <<"9", "2", "2", "3", "3", "7", "2", "0", "3", "6", "8", "5", "4", "7", "7", "5", "8", "0", "8">>} \cup {Itoa(n) : n \in 1..MaxPageSize}}

PreloadEntries ==
  {<<KeyPreload, <<raw>>>> : raw \in {<<>>, <<"A", ",", "B">>, <<" ", "A", " ", ",", " ", ",", "B">>, <<" ", ",", " ">>}}

SearchEntries == {<<KeySearch, <<<<"k", "b">>>>>>}

GroupEntries ==
  {<<KeyGroupBy, <<raw>>>> : raw \in {<<"c", "a", "t", "e", "g", "o", "r", "y", "_", "i", "d">>, <<"a", " ", ",", "b">>}}

OrderEntries == {<<KeyOrder, <<<<"n", "a", "m", "e", " ", "a", "s", "c">>>>>>}

\* the queries whose keys are at most n keys of the entries, each key with one
\* of its value lists
QueriesOver(entries, n) ==
  LET keys == {e[1] : e \in entries}
      vals == {e[2] : e \in entries}
  IN  UNION {{q \in [ks -> vals] : \A k \in ks : <<k, q[k]>> \in entries} :
               ks \in {x \in SUBSET keys : Cardinality(x) <= n}}

PlainOptions ==
  [SearchField |-> <<>>, OrderBy |-> <<>>, PreloadFields |-> <<>>, TypesNil |-> TRUE,
   DefaultPage |-> IntOf(0), DefaultPageSize |-> IntOf(0), AllowGroupBy |-> FALSE]

\* requests that vary the filters and the field-type map
FilterRequests ==
  {<<q, [PlainOptions EXCEPT !.TypesNil = n]>> :
     q \in QueriesOver(FilterEntries, MaxFilterKeys), n \in BOOLEAN}

\* requests that vary the page window
PageRequests ==
  {<<q, [PlainOptions EXCEPT !.DefaultPage = IntOf(d[1]), !.DefaultPageSize = IntOf(d[2])]>> :
     q \in QueriesOver(PageEntries \cup PageSizeEntries, 2),
     d \in {<<0, 0>>, <<3, 5>>, <<-1, -1>>}}

\* requests that vary preload, search, group and order
PreloadRequests ==
  {<<q, [PlainOptions EXCEPT !.PreloadFields = pf]>> :
     q \in QueriesOver(PreloadEntries, 1), pf \in {<<>>, <<<<"C">>>>, <<<<"A">>, <<"C">>>>}}

SearchRequests ==
  {<<q, [PlainOptions EXCEPT !.SearchField = sf]>> :
     q \in QueriesOver(SearchEntries, 1), sf \in {<<>>, <<"n", "a", "m", "e">>, <<"r", "e", "l", ".", "n", "a", "m", "e">>, <<"a", ".", "b", ".", "c">>}}

OrderRequests ==
  {<<q, [PlainOptions EXCEPT !.OrderBy = ob, !.AllowGroupBy = g]>> :
     q \in QueriesOver(GroupEntries \cup OrderEntries, 2), ob \in {<<>>, <<"i", "d", " ", "a", "s", "c">>},
     g \in BOOLEAN}

\* one request that uses every clause at once
FullQuery ==
  [k \in {FilterOf(FieldStatus), KeySearch, KeyGroupBy, KeyPreload, KeyOrder, KeyPage} |->
     CASE k = FilterOf(FieldStatus) -> <<<<"a", "c", "t", "i", "v", "e">>>>
       [] k = KeySearch -> <<<<"k", "b">>>>
       [] k = KeyGroupBy -> <<<<"c", "a", "t", "e", "g", "o", "r", "y", "_", "i", "d">>>>
       [] k = KeyPreload -> <<<<"A", ",", "B">>>>
       [] k = KeyOrder -> <<<<"n", "a", "m", "e", " ", "a", "s", "c">>>>
       [] k = KeyPage -> <<<<"2">>>>]

FullRequests ==
  {<<FullQuery, [PlainOptions EXCEPT !.SearchField = <<"n", "a", "m", "e">>, !.AllowGroupBy = TRUE,
                                     !.PreloadFields = <<<<"C">>>>, !.TypesNil = FALSE]>>}

Requests ==
  FilterRequests \cup PageRequests \cup PreloadRequests \cup SearchRequests
    \cup OrderRequests \cup FullRequests

\* the DefaultFieldTypes maps a caller may hold
CallerMaps ==
  {[f \in {FieldId, FieldStatus} |-> IF f = FieldId THEN "uuid" ELSE "string"],
   [f \in {FieldJumlah, FieldName} |-> IF f = FieldJumlah THEN "string" ELSE "int"]}

\* what the engine may answer
Totals == {IntOf(n) : n \in 0..MaxTotal} \cup {IntOf(48)}

CountOutcomes ==
  {[err |-> "nil", total |-> t] : t \in Totals} \cup {[err |-> "CountErr", total |-> IntOf(0)]}

FetchOutcomes ==
  {[err |-> "nil", rows |-> [i \in 1..n |-> i]] : n \in 0..MaxRows}
    \cup {[err |-> "FetchErr", rows |-> <<>>]}

(***************************************************************************)
(* The state machine: one call of ReadPaginated at a time, step by step.   *)
(***************************************************************************)
VARIABLES
  pc,            \* "idle", "filter", "compose", "count", "fetch", "done"
  query,         \* the url.Values of the call
  opts,          \* the Options of the call
  callerTypes,   \* the caller's DefaultFieldTypes map, which Options refers to
  page,          \* the page in force
  pageSize,      \* the page size in force
  invalidFilter, \* the flag of the filter loop
  pending,       \* the keys of the query the filter loop has yet to visit
  db,            \* the request built so far
  total,         \* the count the engine returned
  executed,      \* the requests the engine has executed and its answers, in order
  result         \* what the call returned

vars ==
  <<pc, query, opts, callerTypes, page, pageSize, invalidFilter, pending, db, total,
    executed, result>>

\* the map opts.DefaultFieldTypes is after the merge
TypesInForce == IF opts.TypesNil THEN DefaultAllowed ELSE callerTypes

Idle ==
  /\ pc = "idle"
  /\ query = <<>>
  /\ opts = PlainOptions
  /\ page = IntOf(0)
  /\ pageSize = IntOf(0)
  /\ invalidFilter = FALSE
  /\ pending = {}
  /\ db = EmptyDB
  /\ total = IntOf(0)
  /\ executed = <<>>
  /\ result = NoResult

Init == Idle /\ callerTypes \in CallerMaps

\* lines 41-81: the page window and the merge of the field types
Call(q, o) ==
  /\ pc = "idle"
  /\ query' = q
  /\ opts' = o
  /\ page' = Resolve(Get(q, KeyPage), o.DefaultPage, IntOf(1))
  /\ pageSize' = Resolve(Get(q, KeyPageSize), o.DefaultPageSize, IntOf(10))
  /\ callerTypes' = IF o.TypesNil THEN callerTypes ELSE MergeDefaults(callerTypes)
  /\ pending' = DOMAIN q
  /\ pc' = "filter"
  /\ UNCHANGED <<invalidFilter, db, total, executed, result>>

\* lines 84-147: the loop visits the keys of the map in no fixed order
VisitKey(key) ==
  /\ pc = "filter"
  /\ key \in pending
  /\ LET st == FilterKey([db |-> db, invalid |-> invalidFilter], key, query[key],
                         TypesInForce)
     IN  /\ db' = st.db
         /\ invalidFilter' = st.invalid
  /\ pending' = pending \ {key}
  /\ UNCHANGED <<pc, query, opts, callerTypes, page, pageSize, total, executed, result>>

\* lines 149-151: the loop is over
EndFilters ==
  /\ pc = "filter"
  /\ pending = {}
  /\ pc' = AfterFilters(invalidFilter)
  /\ result' = IF AfterFilters(invalidFilter) = "done" THEN InvalidResult ELSE result
  /\ UNCHANGED <<query, opts, callerTypes, page, pageSize, invalidFilter, pending, db,
                 total, executed>>

\* lines 153-207
ComposeStep ==
  /\ pc = "compose"
  /\ db' = Compose(db, query, opts)
  /\ pc' = "count"
  /\ UNCHANGED <<query, opts, callerTypes, page, pageSize, invalidFilter, pending,
                 total, executed, result>>

\* lines 232-236: the engine counts
Count(outcome) ==
  /\ pc = "count"
  /\ executed' = Append(executed, [op |-> "count", req |-> CountRequest(db), err |-> outcome.err])
  /\ total' = outcome.total
  /\ pc' = AfterCount(outcome.err)
  /\ result' = IF AfterCount(outcome.err) = "done" THEN ErrorResult(outcome.err) ELSE result
  /\ UNCHANGED <<query, opts, callerTypes, page, pageSize, invalidFilter, pending, db>>

\* lines 239-258 and 211-218: the engine fetches, the meta is built
Fetch(outcome) ==
  /\ pc = "fetch"
  /\ db' = FindRequest(db, page, pageSize)
  /\ executed' = Append(executed, [op |-> "find", req |-> FindRequest(db, page, pageSize),
                                    err |-> outcome.err])
  /\ result' = IF outcome.err # "nil"
               THEN ErrorResult(outcome.err)
               ELSE OkResult(outcome.rows, Pagination(total, page, pageSize))
  /\ pc' = "done"
  /\ UNCHANGED <<query, opts, callerTypes, page, pageSize, invalidFilter, pending, total>>

\* the caller takes the result; the next call starts afresh
Return ==
  /\ pc = "done"
  /\ pc' = "idle"
  /\ query' = <<>>
  /\ opts' = PlainOptions
  /\ page' = IntOf(0)
  /\ pageSize' = IntOf(0)
  /\ invalidFilter' = FALSE
  /\ pending' = {}
  /\ db' = EmptyDB
  /\ total' = IntOf(0)
  /\ executed' = <<>>
  /\ result' = NoResult
  /\ UNCHANGED callerTypes

Next ==
  \/ \E r \in Requests : Call(r[1], r[2])
  \/ \E key \in pending : VisitKey(key)
  \/ EndFilters
  \/ ComposeStep
  \/ \E outcome \in CountOutcomes : Count(outcome)
  \/ \E outcome \in FetchOutcomes : Fetch(outcome)
  \/ Return

Spec == Init /\ [][Next]_vars

(***************************************************************************)
(* The claims.                                                             *)
(***************************************************************************)
\* the keys of the query that are filters on a named field
FilterKeysOf(q) == {k \in DOMAIN q : IsFilterKey(k) /\ FieldOf(k) # <<>>}

\* the parts of a filter value: the trimmed items of a comma list, or the value
PartsOf(value) ==
  IF Contains(value, ",") THEN MapTrim(Split(value, ",")) ELSE <<value>>

FailsCoercion(fieldType, part) ==
  \/ fieldType = "int" /\ ~Atoi(part).ok
  \/ fieldType = "uuid" /\ ~UuidParseOk(part)

\* some filter of the query has a part that fails coercion for its declared type
HasBadFilter ==
  \E k \in FilterKeysOf(query) :
    LET parts == PartsOf(query[k][1])
    IN  \E i \in 1..Len(parts) :
          FailsCoercion(FieldType(TypesInForce, FieldOf(k)), parts[i])

Executed(op) == {i \in 1..Len(executed) : executed[i].op = op}

\* C1: a query with a filter part that fails coercion for an int or uuid field
\* ends with ErrInvalidFilter, an empty Data and an empty Meta, and the engine
\* executes neither count nor fetch, whatever else the request holds.
C1_FailClosed ==
  (pc # "idle" /\ HasBadFilter) =>
    /\ pc \in {"filter", "done"}
    /\ executed = <<>>
    /\ pc = "done" =>
         /\ result.err = "ErrInvalidFilter"
         /\ result.Data = <<>> /\ ~result.DataNil
         /\ result.Meta = {} /\ ~result.MetaNil

\* C1's case: a request rejected although a valid condition had been built
C1_Witness ==
  /\ pc = "done"
  /\ HasBadFilter
  /\ db.where # <<>>
  /\ result.err = "ErrInvalidFilter"

\* the exact rounded-up quotient, for total >= 0 and pageSize >= 1
ExactCeil(t, ps) == IQuo(ISub(IAdd(t, ps), IntOf(1)), ps)

\* C2: on success pageCount = ceil(total / pageSize), hasNext = (page <
\* pageCount) and hasPrev = (page > 1 and pageCount > 0), for every total >= 0,
\* page >= 1 and pageSize >= 1.
C2_Original ==
  (pc = "done" /\ result.err = "nil") =>
    \A e \in result.Meta :
      /\ e.value.pageCount = ExactCeil(total, pageSize)
      /\ e.value.hasNext = ILt(page, ExactCeil(total, pageSize))
      /\ e.value.hasPrev = (ILt(IntOf(1), page) /\ Positive(ExactCeil(total, pageSize)))

\* the window the claim describes
ClaimedWindow(raw, option, fallback) ==
  IF Atoi(raw).ok /\ Positive(Atoi(raw).val) THEN Atoi(raw).val
  ELSE IF Positive(option) THEN option
  ELSE fallback

\* C3: page and pageSize are the parameter when it parses as an integer > 0,
\* else the option when > 0, else 1 and 10; both are >= 1, so the offset
\* (page-1)*pageSize handed to the engine is >= 0.
C3_Original ==
  pc # "idle" =>
    /\ page = ClaimedWindow(Get(query, KeyPage), opts.DefaultPage, IntOf(1))
    /\ pageSize = ClaimedWindow(Get(query, KeyPageSize), opts.DefaultPageSize, IntOf(10))
    /\ ILe(IntOf(1), page)
    /\ ILe(IntOf(1), pageSize)
    /\ \A i \in Executed("find") :
         /\ executed[i].req.offset.set
         /\ ILe(IntOf(0), executed[i].req.offset.val)

\* the condition the claim describes for a filter key
ClaimedValue(fieldType, part) ==
  IF fieldType = "int" THEN IntVal(Atoi(part).val) ELSE StrVal(part)

ClaimedCondition(k) ==
  LET parts == PartsOf(query[k][1])
  IN  [col  |-> FieldOf(k),
       op   |-> IF Len(parts) = 1 THEN "=" ELSE "IN",
       args |-> [i \in 1..Len(parts) |->
                   ClaimedValue(FieldType(TypesInForce, FieldOf(k)), parts[i])]]

\* C4: in a request that is not aborted every filter[<field>] key with a
\* non-empty field yields exactly one condition, from the first value of the
\* key: Equals with the one coerced value, or In with all trimmed, coerced
\* parts in order; other keys yield none.
C4_ConditionShape ==
  pc = "compose" =>
    /\ Len(db.where) = Cardinality(FilterKeysOf(query))
    /\ \A k \in FilterKeysOf(query) :
         \E i \in 1..Len(db.where) : db.where[i] = ClaimedCondition(k)

\* C4's case: an Equals and an In condition in one request that goes on
C4_Witness ==
  /\ pc = "compose"
  /\ \E i, j \in 1..Len(db.where) :
       /\ db.where[i].op = "="
       /\ db.where[j].op = "IN" /\ Len(db.where[j].args) >= 2
  /\ \E k \in FilterKeysOf(query) : Len(query[k]) > 1

\* C5: with AllowGroupBy and a non-empty groupby the request is ordered by
\* MAX(created_at) desc and by nothing else; without AllowGroupBy the groupby
\* parameter changes neither select, group nor order.
C5_Original ==
  pc = "count" =>
    /\ (opts.AllowGroupBy /\ Get(query, KeyGroupBy) # <<>>) => db.order = <<GroupOrder>>
    /\ ~opts.AllowGroupBy =>
         /\ db.selects = <<>>
         /\ db.group = <<>>
         /\ \A i \in 1..Len(db.order) : db.order[i] # GroupOrder

\* C6: no call changes the caller's DefaultFieldTypes map.
C6_Original == [][callerTypes' = callerTypes]_vars

\* the relation names a preload parameter holds
NamesOf(raw) == SelectNonEmpty(MapTrim(Split(raw, ",")))

\* C7: a non-empty preload parameter replaces Options.PreloadFields: the
\* relations requested are its trimmed, non-empty names in order; without it
\* they are Options.PreloadFields.
C7_PreloadOverride ==
  \A i \in 1..Len(executed) :
    executed[i].req.preload =
      IF Get(query, KeyPreload) # <<>>
      THEN NamesOf(Get(query, KeyPreload))
      ELSE opts.PreloadFields

\* C7's case: a fetch whose preload parameter leaves out a configured relation
C7_Witness ==
  \E i \in Executed("find") :
    /\ Get(query, KeyPreload) # <<>>
    /\ executed[i].req.preload # <<>>
    /\ \E j \in 1..Len(opts.PreloadFields) :
         \A n \in 1..Len(executed[i].req.preload) :
           executed[i].req.preload[n] # opts.PreloadFields[j]

\* C8: a call ends with a nil error and a "pagination" entry, or with an error,
\* no rows and no "pagination" entry; a count error is returned as it is and
\* no fetch follows; a fetch error is returned as it is; any other error is
\* ErrInvalidFilter.
C8_Outcome ==
  /\ \A i \in Executed("count") : executed[i].err # "nil" => Len(executed) = 1
  /\ pc = "done" =>
       /\ result.err # "pending"
       /\ result.err = "nil" =>
            /\ "pagination" \in MetaKeys(result)
            /\ \A i \in 1..Len(executed) : executed[i].err = "nil"
       /\ result.err # "nil" =>
            /\ result.Data = <<>>
            /\ "pagination" \notin MetaKeys(result)
       /\ \A i \in 1..Len(executed) :
            executed[i].err # "nil" => result.err = executed[i].err
       /\ result.err \notin {"nil", "ErrInvalidFilter"} =>
            /\ executed # <<>>
            /\ executed[Len(executed)].err = result.err

\* C8's case: the count failed
C8_Witness ==
  /\ pc = "done"
  /\ result.err = "CountErr"
  /\ Executed("find") = {}

\* C9 as stated: the count runs on a copy with no limit, no offset and no
\* order-by clause.
C9_Original ==
  \A i \in Executed("count") :
    /\ ~executed[i].req.limit.set
    /\ ~executed[i].req.offset.set
    /\ executed[i].req.order = <<>>

\* C9, amended: the count runs first, on a copy that carries the filter,
\* search, group and order clauses but no limit and no offset; the fetch
\* carries the same clauses with limit = pageSize and offset = the int
\* product (page-1)*pageSize.
C9_CountRequest ==
  /\ \A i \in 1..Len(executed) : (i = 1) <=> (executed[i].op = "count")
  /\ Len(executed) <= 2
  /\ \A i \in Executed("count") :
       /\ ~executed[i].req.limit.set
       /\ ~executed[i].req.offset.set
       /\ executed[i].req.order # <<>>
       /\ Len(executed[i].req.where) =
            Cardinality(FilterKeysOf(query))
              + (IF opts.SearchField # <<>> /\ Get(query, KeySearch) # <<>> THEN 1 ELSE 0)
       /\ (opts.AllowGroupBy /\ Get(query, KeyGroupBy) # <<>>) <=> executed[i].req.group # <<>>
  /\ \A i \in Executed("find") :
       /\ executed[i].req.limit = SetTo(pageSize)
       /\ executed[i].req.offset = SetTo(Wrap(IMul(ISub(page, IntOf(1)), pageSize)))
       /\ executed[i].req.where = executed[1].req.where
       /\ executed[i].req.group = executed[1].req.group
       /\ executed[i].req.order = executed[1].req.order

\* C9's case: a count and a fetch of a filtered, searched and grouped request
C9_Witness ==
  /\ Len(executed) = 2
  /\ Len(executed[1].req.where) = 2
  /\ executed[1].req.group # <<>>
  /\ executed[2].req.limit.set

\* the outcome of the loop for one key alone
Alone(k) == FilterKey([db |-> EmptyDB, invalid |-> FALSE], k, query[k], TypesInForce)

Conditions(d) == {d.where[i] : i \in 1..Len(d.where)}

\* C10: the outcome of the filter loop does not depend on the order in which
\* it visits the keys: the flag is set exactly when some visited key alone
\* sets it, and the conditions are those the visited keys yield alone.
C10_OrderIndependent ==
  pc = "filter" =>
    LET visited == DOMAIN query \ pending
    IN  /\ invalidFilter = (\E k \in visited : Alone(k).invalid)
        /\ Conditions(db) = UNION {Conditions(Alone(k).db) : k \in visited}
        /\ Len(db.where) = Cardinality(Conditions(db))

\* C10's case: the loop is over, a key was rejected and another accepted
C10_Witness ==
  /\ pc = "filter"
  /\ pending = {}
  /\ Cardinality(FilterKeysOf(query)) >= 2
  /\ invalidFilter
  /\ db.where # <<>>

====
